---- MODULE Spec2Model ----
(***************************************************************************)
(* Browser session orchestration layer of social-auto-upload:              *)
(*   utils/bitbrowser_api.py        remote browser service client          *)
(*   utils/bitbrowser_connector.py  BitBrowserConnector, BrowserManager    *)
(*   utils/browser_helper.py        create/close helpers, resolver,        *)
(*                                  BrowserContextManager                  *)
(*   myUtils/postVideo.py           resolver by file path, batch workflow  *)
(*                                                                         *)
(* Python values are encoded as follows.  A window id is an integer:       *)
(* NoneId is Python None, EmptyId is the empty string, 1..NumWindows are   *)
(* real ids.  Results of calls are strings ("None", "True", "raise", ...). *)
(* The remote service and the automation engine are the environment: each  *)
(* call draws their answers from the sets below.                           *)
(***************************************************************************)
EXTENDS Integers, Sequences, FiniteSets, TLC

\* ------------------------------------------------------------------ bounds
NumWindows == 2
NumCookieNames == 2
NumCookieVals == 2
NumAccounts == 2
MaxVideos == 5
MaxPerDay == 3
MaxStartDays == 1
MaxTimes == 2
MaxFiles == 2
\* Hosts a base address can name, '/' characters that can end it, connectors built
NumHosts == 2
MaxSlashes == 1
MaxConnectors == 2

\* ------------------------------------------------------- program constants
\* close_browser(..., delay: float = 2.0) in browser_helper.py
HelperDelay == 2
\* BitBrowserConnector.close_browser(..., delay: float = 5.0)
ConnectorDelay == 5

\* Python None and "" as window ids (both falsy)
NoneId == 0
EmptyId == -1

WindowIds == 1..NumWindows
IdArgs == WindowIds \cup {NoneId, EmptyId}
Falsy(id) == id = NoneId \/ id = EmptyId

BrowserTypes == {"playwright", "bitbrowser"}
\* browser_type arguments; "None" selects DEFAULT_BROWSER_TYPE
TypeArgs == BrowserTypes \cup {"None"}

VARIABLES
    DEFAULT_BROWSER_TYPE,  \* conf.DEFAULT_BROWSER_TYPE
    svcOpen,               \* window ids whose browser process is live at the remote service
    current_browser_id,    \* BitBrowserConnector.current_browser_id of the long-lived connector
    browser_type,          \* BrowserManager.browser_type
    session,               \* the BrowsingSession made by the last create call
    cm,                    \* BrowserContextManager instance and the position of its async-with
    last,                  \* the last completed call: arguments, result, and what it did
    ctx,                   \* the context returned by the last get_or_create_browser
    db,                    \* the account store (db/database.db, table user_info)
    cfg,                   \* the last resolver call and its result
    api,                   \* the last BitBrowserAPI call: the service's answer and the result
    sched,                 \* the last scheduler call: its arguments and its result
    batch,                 \* a post_video_* run: its arguments, schedule, position and log
    attached,              \* history: the windows the long-lived connector attached to
    default_api            \* bitbrowser_api._default_api and the connectors built on it

vars == <<DEFAULT_BROWSER_TYPE, svcOpen, current_browser_id, browser_type, session,
          cm, last, ctx, db, cfg, api, sched, batch, attached, default_api>>

\* ================================================================== service
\* One request sent to the remote service.
Req(ep, id) == [ep |-> ep, id |-> id]

\* What BitBrowserAPI._request hands back to a `result.get("success")` caller:
\*   "ok"   an object with success = true
\*   "fail" an object with success false or absent; every RequestException
\*          (timeout, refused, non-2xx, non-JSON body) is turned into this one
\*   "bad"  JSON that is not an object (a list, a string): returned as is, and
\*          the caller's result.get raises AttributeError
Resp == {"ok", "fail", "bad"}

\* The answers to /browser/open: success with a 'ws' endpoint, success with data
\* lacking 'ws', success with null/empty data, failure, non-object JSON.
OpenResp == {"ws", "nows", "nodata", "fail", "bad"}

\* /browser/close succeeds only for a window the service has open.
CloseResp(svc, id) == IF id \in svc THEN Resp ELSE {"fail", "bad"}

\* BitBrowserAPI.health_check: result.get("success", False)
health_check(resp) ==
    CASE resp = "ok" -> "True"
      [] resp = "fail" -> "False"
      [] OTHER -> "raise"

\* BitBrowserAPI.open_browser: data when success, else None
api_open_browser(resp) ==
    CASE resp = "ws" -> "data_ws"
      [] resp = "nows" -> "data_nows"
      [] resp = "nodata" -> "None"
      [] resp = "fail" -> "None"
      [] OTHER -> "raise"

\* BitBrowserAPI.close_browser: result.get("success", False)
api_close_browser(resp) ==
    CASE resp = "ok" -> "True"
      [] resp = "fail" -> "False"
      [] OTHER -> "raise"

\* The service's windows after it answered an open / a close request.
SvcAfterOpen(svc, id, resp) ==
    IF resp \in {"ws", "nows", "nodata"} THEN svc \cup {id} ELSE svc
SvcAfterClose(svc, id, resp) ==
    IF resp = "ok" THEN svc \ {id} ELSE svc

\* =========================================================== service client
\* What the service sends back to one POST, as requests sees it: no answer in
\* time, connection refused, a non-2xx status, a body that is not JSON, JSON
\* that is not an object, or an object with an optional 'success' flag and an
\* optional 'data' payload.  pid is what a 'data' object of /browser/pids holds
\* for the id asked about: no entry, 0, or a positive process id.
RequestExceptions == {"timeout", "refused", "http_error", "nonjson"}
PidKinds == {"absent", "zero", "positive"}
Wires ==
    [kind : RequestExceptions \cup {"nonobject"}, success : {"absent"},
     data : {"absent"}, pid : {"absent"}]
    \cup [kind : {"object"}, success : {"false", "absent"}, data : {"absent"},
          pid : {"absent"}]
    \cup [kind : {"object"}, success : {"true"}, data : {"absent", "null"},
          pid : {"absent"}]
    \cup [kind : {"object"}, success : {"true"}, data : {"object"}, pid : PidKinds]

\* BitBrowserAPI._request: every RequestException becomes {"success": False};
\* any JSON value that was parsed is returned as it is.
request(w) ==
    IF w.kind \in RequestExceptions
      THEN [kind |-> "object", success |-> "false", data |-> "absent", pid |-> "absent"]
      ELSE w

\* The result as health_check, close_browser and the other boolean operations
\* read it, and as open_browser reads it.
RespOf(r) ==
    IF r.kind = "nonobject" THEN "bad"
    ELSE IF r.success = "true" THEN "ok" ELSE "fail"
OpenRespOf(r) ==
    IF r.kind = "nonobject" THEN "bad"
    ELSE IF r.success # "true" THEN "fail"
    ELSE IF r.data = "object" THEN "ws" ELSE "nodata"

Returned(v) == [ret |-> v, exc |-> "none"]
Raised(x) == [ret |-> "raise", exc |-> x]

\* return result.get("success", False)
ApiBool(r) ==
    IF health_check(RespOf(r)) = "raise" THEN Raised("AttributeError")
    ELSE Returned(health_check(RespOf(r)))

\* if result.get("success"): return result.get("data") / return None
ApiData(r) ==
    CASE r.kind = "nonobject" -> Raised("AttributeError")
      [] r.kind = "object" /\ r.success = "true" /\ r.data = "object" -> Returned("data")
      [] OTHER -> Returned("None")

\* BitBrowserAPI.create_browser: the result of _request as it is
api_create_browser(r) ==
    CASE r.kind = "nonobject" -> Returned("nonobject")
      [] r.success = "true" -> Returned("result_ok")
      [] OTHER -> Returned("result_fail")

\* BitBrowserAPI.list_browsers: result.get("data", {}).get("list", [])
list_browsers(r) ==
    CASE r.kind = "nonobject" -> Raised("AttributeError")
      [] r.success # "true" -> Returned("None")
      [] r.data = "absent" -> Returned("[]")
      [] r.data = "null" -> Raised("AttributeError")
      [] OTHER -> Returned("list")

\* BitBrowserAPI.get_browser_pids: result.get("data", {}), else {}
get_browser_pids(r) ==
    CASE r.kind = "nonobject" -> Raised("AttributeError")
      [] r.success # "true" -> Returned("{}")
      [] r.data = "absent" -> Returned("{}")
      [] r.data = "null" -> Returned("None")
      [] OTHER -> Returned("pids")

\* Mutant of PidIsLive: a window with an entry counts as opened, whatever its pid.
PidIsLive_AnyEntry(pid) == pid # "absent"

\* browser_id in pids and pids[browser_id] > 0
PidIsLive(pid) == pid = "positive"

\* BitBrowserAPI.is_browser_opened(browser_id)
is_browser_opened(r) ==
    LET pids == get_browser_pids(r) IN
    CASE pids.ret = "raise" -> pids
      [] pids.ret = "None" -> Raised("TypeError")
      [] pids.ret = "{}" -> Returned("False")
      [] OTHER -> Returned(IF PidIsLive(r.pid) THEN "True" ELSE "False")

\* BitBrowserAPI.create_browser_for_platform: result.get("data", {}).get("id")
create_browser_for_platform(r) ==
    CASE r.kind = "nonobject" -> Raised("AttributeError")
      [] r.success # "true" -> Returned("None")
      [] r.data = "absent" -> Returned("None")
      [] r.data = "null" -> Raised("AttributeError")
      [] OTHER -> Returned("id")

BoolOps == {"health_check", "close_browser", "delete_browser", "update_browser_proxy",
            "reset_browser_status", "set_cookies", "clear_cookies"}
DataOps == {"open_browser", "get_browser_detail", "get_cookies"}
ApiOps == BoolOps \cup DataOps \cup {"create_browser", "list_browsers", "get_browser_pids",
                                     "is_browser_opened", "create_browser_for_platform"}

\* One operation of BitBrowserAPI on the service's answer w.
ApiCall(op, w) ==
    LET r == request(w) IN
    CASE op \in BoolOps -> ApiBool(r)
      [] op \in DataOps -> ApiData(r)
      [] op = "create_browser" -> api_create_browser(r)
      [] op = "list_browsers" -> list_browsers(r)
      [] op = "get_browser_pids" -> get_browser_pids(r)
      [] op = "is_browser_opened" -> is_browser_opened(r)
      [] OTHER -> create_browser_for_platform(r)

ApiRecord(op, id, w) ==
    [op |-> op, id |-> id, wire |-> w, ret |-> ApiCall(op, w).ret,
     exc |-> ApiCall(op, w).exc]

\* ================================================================ connector
\* What a call did: result, exception, requests sent in order, the connector's
\* current_browser_id and the service's windows afterwards, windows the service
\* opened and engine drivers started in this call.
Outcome(cid, svc) ==
    [ret |-> "None", exc |-> "none", path |-> "start", reqs |-> <<>>,
     cid |-> cid, svc |-> svc, opened |-> FALSE, drivers |-> 0,
     attached |-> FALSE, engineClosed |-> FALSE, launched |-> FALSE,
     waited |-> 0]

\* Environments of open_browser, one per path through it.
OpenEnvs ==
    {e \in [health : Resp, open : OpenResp, start : {"ok", "raise"},
            attach : {"ok", "fail"}, close : Resp] :
        /\ (e.health # "ok" => e.open = "ws")
        /\ (e.open # "ws" \/ e.health # "ok" => e.start = "ok")
        /\ (e.start # "ok" \/ e.open # "ws" \/ e.health # "ok" => e.attach = "ok")
        /\ (e.attach = "ok" => e.close = "ok")}

\* Mutant of AttachFailedCleanup: the window is tracked although the attach
\* failed.
AttachFailedCleanup_Tracks(o, id, e) ==
    LET r == api_close_browser(e.close) IN
    [o EXCEPT !.reqs = Append(o.reqs, Req("close", id)),
              !.svc = SvcAfterClose(o.svc, id, e.close),
              !.path = "attach_failed",
              !.cid = id,
              !.ret = IF r = "raise" THEN "raise" ELSE "None",
              !.exc = IF r = "raise" THEN "AttributeError" ELSE "none"]

\* Mutant of AttachFailedCleanup: the window is left open.
AttachFailedCleanup_NoClose(o, id, e) ==
    [o EXCEPT !.path = "attach_failed"]

\* The except-branch of open_browser: close the window just opened.
AttachFailedCleanup(o, id, e) ==
    LET r == api_close_browser(e.close) IN
    [o EXCEPT !.reqs = Append(o.reqs, Req("close", id)),
              !.svc = SvcAfterClose(o.svc, id, e.close),
              !.path = "attach_failed",
              !.ret = IF r = "raise" THEN "raise" ELSE "None",
              !.exc = IF r = "raise" THEN "AttributeError" ELSE "none"]

\* Mutant of OpenFailed: a failed open is "cleaned up" with a close request.
OpenFailed_Closes(o, id) ==
    [o EXCEPT !.path = "open_failed", !.reqs = Append(o.reqs, Req("close", id))]

\* `if not open_result: return None`
OpenFailed(o, id) == [o EXCEPT !.path = "open_failed"]

\* Mutant of ProbeFailed: the window is opened although the probe failed.
ProbeFailed_OpensAnyway(o, id) ==
    [o EXCEPT !.path = "probe_failed", !.reqs = Append(o.reqs, Req("open", id)),
              !.svc = o.svc \cup {id}, !.opened = TRUE]

\* `if not self.api.health_check(): return None`
ProbeFailed(o, id) == [o EXCEPT !.path = "probe_failed"]

\* BitBrowserConnector.open_browser(browser_id)
open_browser(cid, svc, id, e) ==
    LET o0 == Outcome(cid, svc)
        o1 == [o0 EXCEPT !.reqs = <<Req("health", NoneId)>>]
        o2 == [o1 EXCEPT !.reqs = Append(o1.reqs, Req("open", id)),
                         !.svc = SvcAfterOpen(svc, id, e.open),
                         !.opened = e.open \in {"ws", "nows", "nodata"}]
        o3 == [o2 EXCEPT !.drivers = 1]
    IN
    IF health_check(e.health) = "raise"
      THEN [o1 EXCEPT !.ret = "raise", !.exc = "AttributeError", !.path = "probe_raised"]
    ELSE IF health_check(e.health) = "False"
      THEN ProbeFailed(o1, id)
    ELSE IF api_open_browser(e.open) = "raise"
      THEN [o2 EXCEPT !.ret = "raise", !.exc = "AttributeError", !.path = "open_raised"]
    ELSE IF api_open_browser(e.open) = "None"
      THEN OpenFailed(o2, id)
    ELSE IF api_open_browser(e.open) = "data_nows"
      THEN [o2 EXCEPT !.path = "no_ws"]
    ELSE IF e.start = "raise"
      THEN [o2 EXCEPT !.ret = "raise", !.exc = "engine", !.path = "start_raised"]
    ELSE IF e.attach = "ok"
      THEN [o3 EXCEPT !.ret = "browser", !.cid = id, !.attached = TRUE,
                      !.path = "attached"]
    ELSE AttachFailedCleanup(o3, id, e)


\* Mutant of CloseTarget: an id-less close targets the first window, whatever
\* window is tracked.
CloseTarget_FirstWindow(cid, id) ==
    IF ~Falsy(id) THEN id ELSE IF Falsy(cid) THEN cid ELSE 1

\* target_id = browser_id or self.current_browser_id
CloseTarget(cid, id) == IF ~Falsy(id) THEN id ELSE cid

\* Mutant of connector_close_request: the tracked id is forgotten whatever the
\* service answered.
connector_close_request_Forgets(o, target, resp) ==
    LET r == api_close_browser(resp)
        o1 == [o EXCEPT !.reqs = Append(o.reqs, Req("close", target)),
                        !.svc = SvcAfterClose(o.svc, target, resp),
                        !.cid = IF target = o.cid THEN NoneId ELSE o.cid]
    IN
    CASE r = "raise" -> [o1 EXCEPT !.ret = "raise", !.exc = "AttributeError",
                                   !.path = "close_raised"]
      [] r = "True" -> [o1 EXCEPT !.ret = "True", !.path = "closed"]
      [] OTHER -> [o1 EXCEPT !.ret = "False", !.path = "close_failed"]

\* BitBrowserConnector.close_browser after its sleep: the close request and
\* the bookkeeping of current_browser_id.
connector_close_request(o, target, resp) ==
    LET r == api_close_browser(resp)
        o1 == [o EXCEPT !.reqs = Append(o.reqs, Req("close", target)),
                        !.svc = SvcAfterClose(o.svc, target, resp)]
    IN
    CASE r = "raise" -> [o1 EXCEPT !.ret = "raise", !.exc = "AttributeError",
                                   !.path = "close_raised"]
      [] r = "True" -> [o1 EXCEPT !.ret = "True", !.path = "closed",
                                  !.cid = IF target = o.cid THEN NoneId ELSE o.cid]
      [] OTHER -> [o1 EXCEPT !.ret = "False", !.path = "close_failed"]

\* BitBrowserConnector.close_browser(browser_id, delay), run to completion
connector_close_browser(o, id, delay, resp) ==
    LET target == CloseTarget(o.cid, id) IN
    IF Falsy(target)
      THEN [o EXCEPT !.ret = "False", !.path = "no_target"]
      ELSE connector_close_request([o EXCEPT !.waited = o.waited + delay], target, resp)

\* ================================================================= contexts
\* A cookie jar maps each cookie name to its value, 0 when the cookie is absent.
CookieNames == 1..NumCookieNames
Jars == [CookieNames -> 0..NumCookieVals]
EmptyJar == [n \in CookieNames |-> 0]

\* Mutant of add_cookies: the context's cookies are replaced by the file's.
add_cookies_Replace(jar, cookies) == cookies

\* BrowserContext.add_cookies: a cookie of the same name is replaced
add_cookies(jar, cookies) ==
    [n \in CookieNames |-> IF cookies[n] # 0 THEN cookies[n] ELSE jar[n]]

\* The account_file argument: none, a path that does not exist, a file that
\* cannot be read as JSON, JSON without 'cookies', JSON with 'cookies'.
FileKinds == {"None", "missing", "corrupt", "nocookies", "valid"}

NoContext == [kind |-> "none", jar |-> EmptyJar, inits |-> 0]

\* utils.base_social_media.set_init_script(context)
set_init_script(c) == [c EXCEPT !.inits = c.inits + 1]

\* browser.new_context(storage_state=account_file) succeeds
NewContextOk(file, eng) == eng = "ok" /\ file \notin {"missing", "corrupt"}

\* BitBrowserConnector.create_context_from_browser(browser, account_file)
create_context_from_browser(file, fjar, eng) ==
    IF NewContextOk(file, eng)
      THEN set_init_script([kind |-> "new",
                            jar |-> IF file = "valid" THEN fjar ELSE EmptyJar,
                            inits |-> 0])
      ELSE NoContext

\* Environments of the context part of get_or_create_browser: whether the
\* attached browser already has a context and its cookies, the cookies of the
\* file, and the engine's answers to add_cookies and to the two new_context calls.
CtxEnvs(jars) ==
    LET R(ex, j0, fs, fj, as, n1, n2) ==
            [existing : ex, jar0 : j0, file : fs, fjar : fj, add : as, new1 : n1,
             new2 : n2]
        E == {EmptyJar}  T == {TRUE}  F == {FALSE}  K == {"ok"}  B == {"ok", "raise"}
    IN
    \* an existing context: only a valid file reaches add_cookies, and only a
    \* failed add_cookies reaches a new_context that may fail or not
    R(T, jars, FileKinds \ {"valid"}, E, K, K, K)
    \cup {c \in R(T, jars, {"valid"}, jars, B, K, B) : c.add = "ok" => c.new2 = "ok"}
    \* no context: new_context of a missing or corrupt file fails by itself
    \cup R(F, E, {"missing", "corrupt"}, E, K, K, K)
    \cup {c \in R(F, E, {"None", "nocookies"}, E, K, B, B) : c.new1 = "ok" => c.new2 = "ok"}
    \cup {c \in R(F, E, {"valid"}, jars, K, B, B) : c.new1 = "ok" => c.new2 = "ok"}

\* The try-block of get_or_create_browser: "ctx" with the context to return,
\* or "except" when it raised.
ReconcileTry(c) ==
    IF c.existing
      THEN IF c.file = "corrupt" \/ (c.file = "valid" /\ c.add = "raise")
             THEN [ret |-> "except", ctx |-> NoContext]
             ELSE [ret |-> "ctx",
                   ctx |-> [kind |-> "existing",
                            jar |-> IF c.file = "valid"
                                      THEN add_cookies(c.jar0, c.fjar) ELSE c.jar0,
                            inits |-> 0]]
      ELSE LET n == create_context_from_browser(c.file, c.fjar, c.new1) IN
           IF n.kind = "none" THEN [ret |-> "except", ctx |-> NoContext]
                              ELSE [ret |-> "ctx", ctx |-> n]

\* Mutant of ReconcileFallback: a failure of the second attempt is swallowed
\* and no context is handed back.
ReconcileFallback_Swallows(c) ==
    LET n == create_context_from_browser(c.file, c.fjar, c.new2) IN
    IF n.kind = "none" THEN [ret |-> "ctx", ctx |-> NoContext]
                       ELSE [ret |-> "ctx", ctx |-> [n EXCEPT !.kind = "fallback"]]

\* The except-branch: create_context_from_browser once more, outside any try.
ReconcileFallback(c) ==
    LET n == create_context_from_browser(c.file, c.fjar, c.new2) IN
    IF n.kind = "none" THEN [ret |-> "raise", ctx |-> NoContext]
                       ELSE [ret |-> "ctx", ctx |-> [n EXCEPT !.kind = "fallback"]]

reconcile(c) ==
    IF ReconcileTry(c).ret = "ctx" THEN ReconcileTry(c) ELSE ReconcileFallback(c)

\* BitBrowserConnector.get_or_create_browser(browser_id, account_file)
get_or_create_browser(cid, svc, id, e, c) ==
    LET o == open_browser(cid, svc, id, e)
        r == reconcile(c)
    IN
    IF o.ret = "raise" THEN [out |-> o, ctx |-> NoContext]
    ELSE IF o.ret = "None" THEN [out |-> [o EXCEPT !.ret = "nonepair"], ctx |-> NoContext]
    ELSE IF r.ret = "ctx" THEN [out |-> [o EXCEPT !.ret = "pair"], ctx |-> r.ctx]
    ELSE [out |-> [o EXCEPT !.ret = "raise", !.exc = "engine",
                            !.path = "context_raised"],
          ctx |-> NoContext]


\* ==================================================================== state
NoSession == [backend |-> "none", id |-> NoneId, handle |-> "none",
              driver |-> "none", torn |-> FALSE]

CmIdle == [pc |-> "idle", type |-> "None", id |-> NoneId, browser |-> FALSE,
           body |-> "none", exc |-> "none", calls |-> <<>>, events |-> <<>>, waited |-> 0]

NoCall == [op |-> "none", type |-> "None", id |-> NoneId, cid0 |-> NoneId,
           known0 |-> FALSE, torn0 |-> FALSE, match |-> FALSE, resp |-> "none",
           out |-> Outcome(NoneId, {})]

NoCtxCall == [phase |-> "none", id |-> NoneId,
              oenv |-> [health |-> "ok", open |-> "ws", start |-> "ok",
                        attach |-> "ok", close |-> "ok"],
              env |-> [existing |-> FALSE, jar0 |-> EmptyJar, file |-> "None",
                       fjar |-> EmptyJar, add |-> "ok", new1 |-> "ok", new2 |-> "ok"],
              ret |-> "none", res |-> NoContext]

\* A row of user_info as the resolvers read it: whether the key has a row, and
\* its browser_type ("NULL" when the column is null) and bitbrowser_id.
NoRow == [present |-> FALSE, browser_type |-> "NULL", bitbrowser_id |-> NoneId]
Accounts == 1..NumAccounts
NoDb == [state |-> "ok", rows |-> [a \in Accounts |-> NoRow]]
NoCfg == [op |-> "none", key |-> NoneId, ret |-> "none", browser_type |-> "none",
          bitbrowser_id |-> NoneId]

\* No BitBrowserAPI call made yet.
NoApiCall == [op |-> "none", id |-> NoneId,
              wire |-> [kind |-> "object", success |-> "absent", data |-> "absent",
                        pid |-> 0],
              ret |-> "none", exc |-> "none"]

\* No scheduler call made yet.
NoSched == [phase |-> "none", total_videos |-> 0, videos_per_day |-> 1,
            daily_times |-> <<>>, start_days |-> 0, now |-> <<0, 0>>, result |-> <<>>]

\* No post_video_* run started.
NoBatch == [pc |-> "idle", fn |-> "none", files |-> 0, accounts |-> 0,
            enableTimer |-> FALSE, videos_per_day |-> 1, daily_times |-> <<>>,
            start_days |-> 0, publish_datetimes |-> [kind |-> "none", items |-> <<>>],
            index |-> 0, cookie |-> 1, log |-> <<>>, sessions |-> 0, active |-> 0,
            scheduled |-> 0, exc |-> "none"]

\* History of the long-lived connector: the window of its most recent
\* successful attach and every window it ever attached to.
NoAttach == [recent |-> NoneId, ever |-> {}]

\* Module state of bitbrowser_api before the first get_bitbrowser_api call:
\* _default_api is None. instances counts the BitBrowserAPI objects built,
\* first is the address given to the first call, connectors the
\* BitBrowserConnector objects built, ret the client the last call returned and
\* sent the address the last request went to.
NoAddress == [host |-> 0, slashes |-> 0]
NoDefaultApi == [instances |-> 0, first |-> NoAddress, base_url |-> NoAddress,
                 connectors |-> <<>>, ret |-> 0, sent |-> NoAddress,
                 by |-> 0]

\* After construction: no window open, a fresh connector, no session.
InitCommon ==
    /\ svcOpen = {}
    /\ current_browser_id = NoneId
    /\ session = NoSession
    /\ cm = CmIdle
    /\ last = NoCall
    /\ ctx = NoCtxCall
    /\ cfg = NoCfg
    /\ api = NoApiCall
    /\ sched = NoSched
    /\ batch = NoBatch
    /\ attached = NoAttach
    /\ default_api = NoDefaultApi

Init ==
    /\ InitCommon
    /\ DEFAULT_BROWSER_TYPE = "playwright"
    /\ browser_type = "bitbrowser"
    /\ db = NoDb

\* No call is under way and the caller holds no unread result.
Quiet == cm.pc = "idle" /\ last.op = "none"

\* The caller has read the result of the call that last returned.
Discard ==
    /\ cm.pc = "idle"
    /\ last.op # "none"
    /\ last' = NoCall
    /\ ctx' = NoCtxCall
    /\ api' = NoApiCall
    /\ UNCHANGED <<DEFAULT_BROWSER_TYPE, svcOpen, current_browser_id, browser_type,
                   session, cm, db, cfg, sched, batch, attached, default_api>>

\* ========================================================= connector actions
\* await connector.open_browser(id) on the long-lived connector
ConnOpen ==
    \E id \in WindowIds, e \in OpenEnvs :
        LET o == open_browser(current_browser_id, svcOpen, id, e) IN
        /\ Quiet
        /\ last' = [NoCall EXCEPT !.op = "open_browser", !.id = id,
                                  !.cid0 = current_browser_id,
                                  !.known0 = id \in svcOpen, !.out = o]
        /\ current_browser_id' = o.cid
        /\ svcOpen' = o.svc
        /\ attached' = IF o.attached
                         THEN [recent |-> id, ever |-> attached.ever \cup {id}]
                         ELSE attached
        /\ UNCHANGED <<DEFAULT_BROWSER_TYPE, browser_type, session, cm, ctx, db, cfg,
                       api, sched, batch, default_api>>

\* await connector.close_browser(id) on the long-lived connector, default delay
ConnClose ==
    \E id \in IdArgs :
        LET target == CloseTarget(current_browser_id, id) IN
        \E resp \in (IF Falsy(target) THEN {"fail"} ELSE CloseResp(svcOpen, target)) :
            LET o == connector_close_browser(Outcome(current_browser_id, svcOpen),
                                             id, ConnectorDelay, resp) IN
            /\ Quiet
            /\ last' = [NoCall EXCEPT !.op = "close_browser", !.id = id,
                                      !.cid0 = current_browser_id,
                                      !.known0 = target \in svcOpen, !.resp = resp,
                                      !.out = o]
            /\ current_browser_id' = o.cid
            /\ svcOpen' = o.svc
            /\ UNCHANGED <<DEFAULT_BROWSER_TYPE, browser_type, session, cm, ctx, db, cfg,
                           api, sched, batch, attached, default_api>>

\* A window is closed by means outside this client (the user, the service).
ExternalClose ==
    \E id \in svcOpen :
        /\ Quiet
        /\ svcOpen' = svcOpen \ {id}
        /\ UNCHANGED <<DEFAULT_BROWSER_TYPE, current_browser_id, browser_type, session,
                       cm, last, ctx, db, cfg, api, sched, batch, attached,
                       default_api>>

\* What the service can answer to /browser/pids for one id: a 'data' object
\* holds a positive process id for the id exactly when its window is open.
PidsAnswers(svc, id) ==
    {w \in Wires : (w.kind = "object" /\ w.success = "true" /\ w.data = "object")
                       => (w.pid = "positive" <=> id \in svc)}

\* connector.is_browser_opened(id): self.api.is_browser_opened(browser_id)
ConnIsOpened ==
    \E id \in WindowIds :
      \E w \in PidsAnswers(svcOpen, id) :
        /\ Quiet
        /\ api' = ApiRecord("is_browser_opened", id, w)
        /\ last' = [NoCall EXCEPT !.op = "is_browser_opened", !.id = id,
                                  !.cid0 = current_browser_id,
                                  !.known0 = id \in svcOpen]
        /\ UNCHANGED <<DEFAULT_BROWSER_TYPE, svcOpen, current_browser_id, browser_type,
                       session, cm, ctx, db, cfg, sched, batch, attached, default_api>>

Next == ConnOpen \/ ConnClose \/ ExternalClose \/ ConnIsOpened \/ Discard

Spec == Init /\ [][Next]_vars


\* ========================================================== session helpers
\* browser_type argument None selects conf.DEFAULT_BROWSER_TYPE
EffType(t, def) == IF t = "None" THEN def ELSE t

\* Environments of a local launch: async_playwright().start(), chromium.launch,
\* browser.new_context, and the authentication-state file given.
LocalEnvs ==
    {l \in [start : {"ok", "raise"}, launch : {"ok", "raise"},
            newctx : {"ok", "raise"}, file : FileKinds, fjar : {EmptyJar}] :
        /\ (l.start = "raise" => l.launch = "ok")
        /\ (l.start = "raise" \/ l.launch = "raise" => l.newctx = "ok" /\ l.file = "None")
        /\ (l.file \in {"missing", "corrupt"} => l.newctx = "ok")
        /\ l.file \in {"None", "corrupt"}}

\* The Playwright branch of create_browser_and_context and of
\* BrowserManager.create_browser: start, launch, new_context, set_init_script.
local_create(svc, l) ==
    LET o == Outcome(NoneId, svc) IN
    IF l.start = "raise"
      THEN [out |-> [o EXCEPT !.ret = "raise", !.exc = "engine", !.path = "start_raised"],
            ctx |-> NoContext]
    ELSE IF l.launch = "raise"
      THEN [out |-> [o EXCEPT !.ret = "raise", !.exc = "engine", !.drivers = 1,
                              !.path = "launch_raised"],
            ctx |-> NoContext]
    ELSE IF ~NewContextOk(l.file, l.newctx)
      THEN [out |-> [o EXCEPT !.ret = "raise", !.exc = "engine", !.drivers = 1,
                              !.launched = TRUE, !.path = "context_raised"],
            ctx |-> NoContext]
    ELSE [out |-> [o EXCEPT !.ret = "pair", !.drivers = 1, !.launched = TRUE,
                            !.path = "launched"],
          ctx |-> create_context_from_browser(l.file, l.fjar, l.newctx)]

\* Mutant of MissingWindowId: only None counts as missing, "" is let through.
MissingWindowId_NoneOnly(id) == id = NoneId

\* `if not browser_id: raise ValueError` / `return None, None`
MissingWindowId(id) == Falsy(id)

\* browser_helper.create_browser_and_context(browser_type, browser_id, account_file)
create_browser_and_context(def, svc, t, id, e, c, l) ==
    IF EffType(t, def) = "bitbrowser"
      THEN IF MissingWindowId(id)
             THEN [out |-> [Outcome(NoneId, svc) EXCEPT !.ret = "raise",
                                !.exc = "ValueError", !.path = "config_error"],
                   ctx |-> NoContext]
             ELSE LET g == get_or_create_browser(NoneId, svc, id, e, c) IN
                  \* `if not browser or not context: raise Exception`
                  IF g.out.ret = "nonepair" \/ (g.out.ret = "pair" /\ g.ctx = NoContext)
                    THEN [g EXCEPT !.out.ret = "raise", !.out.exc = "Exception"]
                    ELSE g
      ELSE local_create(svc, l)

\* BrowserManager.create_browser(browser_id, account_file)
BrowserManager_create_browser(bt, cid, svc, id, e, c, l) ==
    IF bt = "bitbrowser"
      THEN IF MissingWindowId(id)
             THEN [out |-> [Outcome(cid, svc) EXCEPT !.ret = "nonepair",
                                !.path = "config_error"],
                   ctx |-> NoContext]
             ELSE get_or_create_browser(cid, svc, id, e, c)
      ELSE [local_create(svc, l) EXCEPT !.out.cid = cid]

\* await browser.close()
engine_close(o) == [o EXCEPT !.engineClosed = TRUE, !.path = "engine_closed"]

\* Mutant of HelperCloseDispatch: every session is closed through its engine handle.
HelperCloseDispatch_EngineOnly(bt, id) == "engine"

\* Which teardown close_browser (browser_helper) takes after its sleep.
HelperCloseDispatch(bt, id) ==
    IF bt = "bitbrowser"
      THEN IF ~Falsy(id) THEN "connector" ELSE "skip"
      ELSE "engine"

\* browser_helper.close_browser(browser, browser_type, browser_id, delay), run
\* to completion; it returns None whatever the connector answered.
close_browser(def, svc, t, id, delay, resp) ==
    LET o == [Outcome(NoneId, svc) EXCEPT !.waited = delay]
        d == HelperCloseDispatch(EffType(t, def), id)
        r == connector_close_browser(o, id, ConnectorDelay, resp)
    IN
    CASE d = "connector" -> IF r.ret = "raise" THEN r ELSE [r EXCEPT !.ret = "None"]
      [] d = "skip" -> [o EXCEPT !.path = "skipped"]
      [] OTHER -> engine_close(o)

\* BrowserManager.close_browser(browser, browser_id); BrowserManager has no
\* attribute current_browser_id, so the fallback of a falsy browser_id raises.
BrowserManager_close_browser(bt, cid, svc, id, resp) ==
    LET o == Outcome(cid, svc)
        r == connector_close_browser(o, id, ConnectorDelay, resp)
    IN
    IF bt = "bitbrowser"
      THEN IF Falsy(id)
             THEN [o EXCEPT !.ret = "raise", !.exc = "AttributeError",
                            !.path = "no_attribute"]
             ELSE IF r.ret = "raise" THEN r ELSE [r EXCEPT !.ret = "None"]
      ELSE engine_close(o)

\* ============================================================ session actions
DefaultOpenEnv == [health |-> "ok", open |-> "ws", start |-> "ok", attach |-> "ok",
                   close |-> "ok"]
DefaultCtxEnv == [existing |-> TRUE, jar0 |-> EmptyJar, file |-> "None",
                  fjar |-> EmptyJar, add |-> "ok", new1 |-> "ok", new2 |-> "ok"]
DefaultLocalEnv == [start |-> "ok", launch |-> "ok", newctx |-> "ok", file |-> "None",
                    fjar |-> EmptyJar]

Attaches(e) == e.health = "ok" /\ e.open = "ws" /\ e.start = "ok" /\ e.attach = "ok"

\* Environments of a remote create: those of open_browser, and those of the
\* context part when the attach succeeds.
RemoteEnvs(jars) ==
    {<<e, DefaultCtxEnv>> : e \in {x \in OpenEnvs : ~Attaches(x)}}
    \cup {<<e, c>> : e \in {x \in OpenEnvs : Attaches(x)}, c \in CtxEnvs(jars)}

\* The environments a create call with these arguments can meet.
ConfigErrorEnvs == {<<DefaultOpenEnv, DefaultCtxEnv, DefaultLocalEnv>>}
RemoteCreateEnvs ==
    {<<p[1], p[2], DefaultLocalEnv>> :
        p \in {q \in RemoteEnvs({EmptyJar}) : q[2].file \in {"None", "corrupt"}}}
LocalCreateEnvs == {<<DefaultOpenEnv, DefaultCtxEnv, l>> : l \in LocalEnvs}
CreateEnvs(bt, id) ==
    IF bt = "bitbrowser"
      THEN IF Falsy(id) THEN ConfigErrorEnvs ELSE RemoteCreateEnvs
      ELSE LocalCreateEnvs

\* The session a successful create hands to its caller.
SessionAfterCreate(sess, g, bt, id) ==
    IF g.out.ret = "pair"
      THEN [backend |-> bt, id |-> IF bt = "bitbrowser" THEN id ELSE NoneId,
            handle |-> "live", driver |-> "running", torn |-> FALSE]
      ELSE sess

\* The session after a close call: its engine handle is closed by browser.close(),
\* and it is torn down once its backend's resource is released.
SessionAfterClose(sess, svc, o) ==
    [sess EXCEPT !.handle = IF o.engineClosed THEN "closed" ELSE @,
                 !.torn = \/ @
                          \/ sess.backend = "playwright" /\ o.engineClosed
                          \/ sess.backend = "bitbrowser" /\ sess.id \in svc
                                                         /\ sess.id \notin o.svc]

\* The close call is given the backend and window id of the session.
ArgsMatch(sess, bt, id) ==
    /\ sess.backend = bt
    /\ (bt = "bitbrowser" => id = sess.id)

CanCreate == Quiet /\ (session.backend = "none" \/ session.torn)
CanClose == Quiet /\ session.backend # "none"

CtxRecord(id, c, g) ==
    [NoCtxCall EXCEPT !.phase = "done", !.id = id, !.env = c, !.ret = g.out.ret,
                      !.res = g.ctx]

\* get_browser_manager(browser_type): a new BrowserManager, with a new connector
GetManager ==
    \E t \in BrowserTypes :
        /\ Quiet
        /\ t # browser_type
        /\ browser_type' = t
        /\ current_browser_id' = NoneId
        /\ UNCHANGED <<DEFAULT_BROWSER_TYPE, svcOpen, session, cm, last, ctx, db, cfg,
                       api, sched, batch, attached, default_api>>

\* await create_browser_and_context(browser_type, browser_id, account_file)
HelperCreate ==
    \E t \in TypeArgs, id \in IdArgs :
      \E env \in CreateEnvs(EffType(t, DEFAULT_BROWSER_TYPE), id) :
        LET bt == EffType(t, DEFAULT_BROWSER_TYPE)
            g == create_browser_and_context(DEFAULT_BROWSER_TYPE, svcOpen, t, id,
                                            env[1], env[2], env[3])
        IN
        /\ CanCreate
        /\ last' = [NoCall EXCEPT !.op = "create_browser_and_context", !.type = t,
                                  !.id = id, !.known0 = id \in svcOpen, !.out = g.out]
        /\ ctx' = CtxRecord(id, env[2], g)
        /\ session' = SessionAfterCreate(session, g, bt, id)
        /\ svcOpen' = g.out.svc
        /\ UNCHANGED <<DEFAULT_BROWSER_TYPE, current_browser_id, browser_type, cm, db, cfg,
                       api, sched, batch, attached, default_api>>

\* await close_browser(browser, browser_type, browser_id), default delay
HelperClose ==
    \E t \in TypeArgs, id \in IdArgs :
      \E resp \in (IF HelperCloseDispatch(EffType(t, DEFAULT_BROWSER_TYPE), id) = "connector"
                     THEN CloseResp(svcOpen, id) ELSE {"fail"}) :
        LET o == close_browser(DEFAULT_BROWSER_TYPE, svcOpen, t, id, HelperDelay, resp) IN
        /\ CanClose
        /\ last' = [NoCall EXCEPT !.op = "close_browser(helper)", !.type = t, !.id = id,
                                  !.known0 = id \in svcOpen, !.torn0 = session.torn,
                                  !.match = ArgsMatch(session,
                                                EffType(t, DEFAULT_BROWSER_TYPE), id),
                                  !.out = o]
        /\ session' = SessionAfterClose(session, svcOpen, o)
        /\ svcOpen' = o.svc
        /\ UNCHANGED <<DEFAULT_BROWSER_TYPE, current_browser_id, browser_type, cm, ctx,
                       db, cfg, api, sched, batch, attached, default_api>>

\* await manager.create_browser(browser_id, account_file)
MgrCreate ==
    \E id \in IdArgs :
      \E env \in CreateEnvs(browser_type, id) :
        LET g == BrowserManager_create_browser(browser_type, current_browser_id, svcOpen,
                                               id, env[1], env[2], env[3])
        IN
        /\ CanCreate
        /\ last' = [NoCall EXCEPT !.op = "BrowserManager.create_browser",
                                  !.type = browser_type, !.id = id,
                                  !.cid0 = current_browser_id,
                                  !.known0 = id \in svcOpen, !.out = g.out]
        /\ ctx' = CtxRecord(id, env[2], g)
        /\ session' = SessionAfterCreate(session, g, browser_type, id)
        /\ svcOpen' = g.out.svc
        /\ current_browser_id' = g.out.cid
        /\ UNCHANGED <<DEFAULT_BROWSER_TYPE, browser_type, cm, db, cfg, api, sched, batch,
                       attached, default_api>>

\* await manager.close_browser(browser, browser_id)
MgrClose ==
    \E id \in IdArgs :
      \E resp \in (IF browser_type = "bitbrowser" /\ ~Falsy(id)
                     THEN CloseResp(svcOpen, id) ELSE {"fail"}) :
        LET o == BrowserManager_close_browser(browser_type, current_browser_id, svcOpen,
                                              id, resp) IN
        /\ CanClose
        /\ last' = [NoCall EXCEPT !.op = "BrowserManager.close_browser",
                                  !.type = browser_type, !.id = id,
                                  !.cid0 = current_browser_id,
                                  !.known0 = id \in svcOpen, !.torn0 = session.torn,
                                  !.match = ArgsMatch(session, browser_type, id),
                                  !.out = o]
        /\ session' = SessionAfterClose(session, svcOpen, o)
        /\ svcOpen' = o.svc
        /\ current_browser_id' = o.cid
        /\ UNCHANGED <<DEFAULT_BROWSER_TYPE, browser_type, cm, ctx, db, cfg,
                       api, sched, batch, attached, default_api>>

InitSession ==
    /\ InitCommon
    /\ DEFAULT_BROWSER_TYPE \in BrowserTypes
    /\ browser_type \in BrowserTypes
    /\ db = NoDb

NextSession ==
    GetManager \/ HelperCreate \/ HelperClose \/ MgrCreate \/ MgrClose \/ Discard

SpecSession == InitSession /\ [][NextSession]_vars

\* ===================================================== BrowserContextManager
\* `async with BrowserContextManager(browser_type, browser_id, ...) as (b, c): body`
\* cm.pc is the position of the task in it:
\*   idle    not started            body    inside the body, session open
\*   failed  __aenter__ raised      exit    body left, __aexit__ about to run
\*   sleep1  in close_browser's asyncio.sleep(delay)
\*   sleep2  in BitBrowserConnector.close_browser's asyncio.sleep(delay)
\*   done    __aexit__ returned or raised
\* cm.events lists, in order, the requests and engine calls made for this scope,
\* each marked with the part that made it ("create" or "release").
Event(ep, id, by) == [ep |-> ep, id |-> id, by |-> by]

CreateEvents(o) ==
    [i \in 1..Len(o.reqs) |-> Event(o.reqs[i].ep, o.reqs[i].id, "create")]
    \o (IF o.launched THEN <<Event("launch", NoneId, "create")>> ELSE <<>>)

\* Mutant of AexitCloses: the release does not look at self.browser.
AexitCloses_Always(c) == TRUE

\* Mutant of AexitCloses: the release is skipped when the body was cancelled.
AexitCloses_NotOnCancel(c) == c.browser /\ c.body # "cancelled"

\* `if self.browser:` in __aexit__, which runs however the body ended
AexitCloses(c) == c.browser

\* __aenter__: create_browser_and_context with the manager's own arguments
CmEnter ==
    \E t \in TypeArgs, id \in IdArgs :
      \E env \in CreateEnvs(EffType(t, DEFAULT_BROWSER_TYPE), id) :
        LET g == create_browser_and_context(DEFAULT_BROWSER_TYPE, svcOpen, t, id,
                                            env[1], env[2], env[3])
            ok == g.out.ret = "pair"
        IN
        /\ Quiet
        /\ cm' = [CmIdle EXCEPT !.pc = IF ok THEN "body" ELSE "failed",
                                !.type = t, !.id = id, !.browser = ok,
                                !.events = CreateEvents(g.out)
                                           \o (IF ok THEN <<Event("entered", id, "create")>>
                                                     ELSE <<>>)]
        /\ last' = [NoCall EXCEPT !.op = "create_browser_and_context", !.type = t,
                                  !.id = id, !.known0 = id \in svcOpen, !.out = g.out]
        /\ ctx' = CtxRecord(id, env[2], g)
        /\ svcOpen' = g.out.svc
        /\ UNCHANGED <<DEFAULT_BROWSER_TYPE, current_browser_id, browser_type, session,
                       db, cfg, api, sched, batch, attached, default_api>>

\* The body ends: it returns, raises, or the task is cancelled inside it.
CmBody ==
    \E x \in {"none", "error", "cancelled"} :
        /\ cm.pc = "body"
        /\ cm' = [cm EXCEPT !.pc = "exit", !.body = x, !.exc = x]
        /\ UNCHANGED <<DEFAULT_BROWSER_TYPE, svcOpen, current_browser_id, browser_type,
                       session, last, ctx, db, cfg, api, sched, batch, attached,
                       default_api>>

\* __aenter__ raised, so self.browser is still None; the caller, who drives the
\* manager by hand, calls __aexit__ all the same.
CmManualExit ==
    /\ cm.pc = "failed"
    /\ cm' = [cm EXCEPT !.pc = "exit"]
    /\ UNCHANGED <<DEFAULT_BROWSER_TYPE, svcOpen, current_browser_id, browser_type,
                   session, last, ctx, db, cfg, api, sched, batch, attached,
                   default_api>>

\* __aexit__ runs: it calls close_browser(self.browser, self.browser_type,
\* self.browser_id), which starts with asyncio.sleep(delay).
CmAexit ==
    /\ cm.pc = "exit"
    /\ cm' = IF AexitCloses(cm)
               THEN [cm EXCEPT !.pc = "sleep1",
                               !.calls = Append(cm.calls, [type |-> cm.type, id |-> cm.id])]
               ELSE [cm EXCEPT !.pc = "done"]
    /\ UNCHANGED <<DEFAULT_BROWSER_TYPE, svcOpen, current_browser_id, browser_type,
                   session, last, ctx, db, cfg, api, sched, batch, attached,
                   default_api>>

\* close_browser's sleep elapses; it dispatches on the backend.
CmSleep1 ==
    LET d == HelperCloseDispatch(EffType(cm.type, DEFAULT_BROWSER_TYPE), cm.id) IN
    /\ cm.pc = "sleep1"
    /\ cm' = [cm EXCEPT !.waited = cm.waited + HelperDelay,
                        !.pc = IF d = "connector" THEN "sleep2" ELSE "done",
                        !.events = IF d = "engine"
                                     THEN Append(cm.events,
                                                 Event("engine_close", NoneId, "release"))
                                     ELSE cm.events]
    /\ UNCHANGED <<DEFAULT_BROWSER_TYPE, svcOpen, current_browser_id, browser_type,
                   session, last, ctx, db, cfg, api, sched, batch, attached,
                   default_api>>

\* The connector's sleep elapses; it sends the close request.
CmSleep2 ==
    \E resp \in CloseResp(svcOpen, cm.id) :
        LET o == connector_close_request(
                     [Outcome(NoneId, svcOpen) EXCEPT !.waited = cm.waited + ConnectorDelay],
                     CloseTarget(NoneId, cm.id), resp) IN
        /\ cm.pc = "sleep2"
        /\ cm' = [cm EXCEPT !.pc = "done", !.waited = o.waited,
                            !.exc = IF o.ret = "raise" THEN "error" ELSE cm.exc,
                            !.events = cm.events \o
                                [i \in 1..Len(o.reqs) |->
                                    Event(o.reqs[i].ep, o.reqs[i].id, "release")]]
        /\ svcOpen' = o.svc
        /\ UNCHANGED <<DEFAULT_BROWSER_TYPE, current_browser_id, browser_type, session,
                       last, ctx, db, cfg, api, sched, batch, attached, default_api>>

\* The task is cancelled while it sleeps in close_browser: asyncio.sleep raises
\* CancelledError, which nothing catches on the way out of __aexit__.
CmCancel ==
    /\ cm.pc \in {"sleep1", "sleep2"}
    /\ cm' = [cm EXCEPT !.pc = "done", !.exc = "cancelled"]
    /\ UNCHANGED <<DEFAULT_BROWSER_TYPE, svcOpen, current_browser_id, browser_type,
                   session, last, ctx, db, cfg, api, sched, batch, attached,
                   default_api>>

\* The async-with statement is left.
CmLeave ==
    /\ cm.pc \in {"done", "failed"}
    /\ cm' = CmIdle
    /\ last' = NoCall
    /\ ctx' = NoCtxCall
    /\ UNCHANGED <<DEFAULT_BROWSER_TYPE, svcOpen, current_browser_id, browser_type,
                   session, db, cfg, api, sched, batch, attached, default_api>>

InitScope ==
    /\ InitCommon
    /\ DEFAULT_BROWSER_TYPE \in BrowserTypes
    /\ browser_type = "playwright"
    /\ db = NoDb

NextScope ==
    \/ CmEnter \/ CmBody \/ CmManualExit \/ CmAexit \/ CmSleep1 \/ CmSleep2
    \/ CmCancel \/ CmLeave

SpecScope == InitScope /\ [][NextScope]_vars

\* ======================================================== context reconcile
\* One call of get_or_create_browser on a fresh connector: Init draws the window
\* id, the answers of the service and the engine, the cookies of the existing
\* context and those of the authentication-state file.
InitContext ==
    /\ svcOpen = {}
    /\ current_browser_id = NoneId
    /\ session = NoSession
    /\ cm = CmIdle
    /\ last = NoCall
    /\ cfg = NoCfg
    /\ api = NoApiCall
    /\ sched = NoSched
    /\ batch = NoBatch
    /\ attached = NoAttach
    /\ default_api = NoDefaultApi
    /\ db = NoDb
    /\ DEFAULT_BROWSER_TYPE = "playwright"
    /\ browser_type = "bitbrowser"
    /\ \E id \in WindowIds, p \in RemoteEnvs(Jars) :
           ctx = [NoCtxCall EXCEPT !.phase = "input", !.id = id, !.oenv = p[1],
                                   !.env = p[2]]

\* await connector.get_or_create_browser(id, account_file=file)
GetOrCreate ==
    LET g == get_or_create_browser(current_browser_id, svcOpen, ctx.id, ctx.oenv,
                                   ctx.env) IN
    /\ ctx.phase = "input"
    /\ ctx' = [ctx EXCEPT !.phase = "done", !.ret = g.out.ret, !.res = g.ctx]
    /\ last' = [NoCall EXCEPT !.op = "get_or_create_browser", !.id = ctx.id,
                              !.cid0 = current_browser_id, !.out = g.out]
    /\ svcOpen' = g.out.svc
    /\ current_browser_id' = g.out.cid
    /\ UNCHANGED <<DEFAULT_BROWSER_TYPE, browser_type, session, cm, db, cfg,
                   api, sched, batch, attached, default_api>>

NextContext == GetOrCreate

SpecContext == InitContext /\ [][NextContext]_vars

\* ================================================================ resolvers
\* The account store: readable or not (missing file or directory, query error,
\* columns not migrated), and one row per known account key.
Rows ==
    {NoRow} \cup [present : {TRUE}, browser_type : BrowserTypes \cup {"NULL"},
                  bitbrowser_id : WindowIds \cup {NoneId}]
Dbs ==
    [state : {"ok"}, rows : [Accounts -> Rows]]
    \cup [state : {"missing", "error"}, rows : {[a \in Accounts |-> NoRow]}]

\* Keys asked for: the known accounts and one unknown key.
Keys == 1..(NumAccounts + 1)

\* cursor.execute(...); cursor.fetchone(): raises, returns None, or a row
Lookup(d, key) ==
    IF d.state # "ok" THEN "raise"
    ELSE IF key \in Accounts /\ d.rows[key].present THEN "row"
    ELSE "norow"

ConfigDict(bt, id) == [ret |-> "dict", browser_type |-> bt, bitbrowser_id |-> id]

\* Mutant of OnLookupError: the storage error reaches the caller.
OnLookupError_Raises(fallback) ==
    [ret |-> "raise", browser_type |-> "none", bitbrowser_id |-> NoneId]

\* `except Exception as e:` of both resolvers
OnLookupError(fallback) == ConfigDict(fallback, NoneId)

\* The body shared by the two resolvers; they differ in the fallback type.
ResolveWith(d, key, fallback) ==
    CASE Lookup(d, key) = "raise" -> OnLookupError(fallback)
      [] Lookup(d, key) = "norow" -> ConfigDict(fallback, NoneId)
      [] OTHER -> ConfigDict(IF d.rows[key].browser_type = "NULL"
                               THEN fallback ELSE d.rows[key].browser_type,
                             d.rows[key].bitbrowser_id)

\* browser_helper.get_account_browser_config(account_id)
get_account_browser_config(def, d, key) == ResolveWith(d, key, def)

\* postVideo.get_account_browser_config_by_filepath(file_path)
get_account_browser_config_by_filepath(d, key) == ResolveWith(d, key, "playwright")

CfgRecord(op, key, r) ==
    [op |-> op, key |-> key, ret |-> r.ret, browser_type |-> r.browser_type,
     bitbrowser_id |-> r.bitbrowser_id]

ResolveById ==
    \E key \in Keys :
        /\ cfg' = CfgRecord("get_account_browser_config", key,
                            get_account_browser_config(DEFAULT_BROWSER_TYPE, db, key))
        /\ UNCHANGED <<DEFAULT_BROWSER_TYPE, svcOpen, current_browser_id, browser_type,
                       session, cm, last, ctx, db, api, sched, batch, attached,
                       default_api>>

ResolveByFilepath ==
    \E key \in Keys :
        /\ cfg' = CfgRecord("get_account_browser_config_by_filepath", key,
                            get_account_browser_config_by_filepath(db, key))
        /\ UNCHANGED <<DEFAULT_BROWSER_TYPE, svcOpen, current_browser_id, browser_type,
                       session, cm, last, ctx, db, api, sched, batch, attached,
                       default_api>>

InitConfig ==
    /\ InitCommon
    /\ DEFAULT_BROWSER_TYPE \in BrowserTypes
    /\ browser_type = "playwright"
    /\ db \in Dbs

NextConfig == ResolveById \/ ResolveByFilepath

SpecConfig == InitConfig /\ [][NextConfig]_vars

\* ==================================================== service client calls
\* api.<op>(...) against a service that may answer anything
ClientCall ==
    \E op \in ApiOps, id \in WindowIds, w \in Wires :
        /\ api' = ApiRecord(op, id, w)
        /\ UNCHANGED <<DEFAULT_BROWSER_TYPE, svcOpen, current_browser_id, browser_type,
                       session, cm, last, ctx, db, cfg, sched, batch, attached,
                       default_api>>

InitClient ==
    /\ InitCommon
    /\ DEFAULT_BROWSER_TYPE = "playwright"
    /\ browser_type = "bitbrowser"
    /\ db = NoDb

NextClient == ClientCall

SpecClient == InitClient /\ [][NextClient]_vars

\* ================================================================ scheduler
\* utils.files_times.generate_schedule_time_next_day, as the specification
\* describes it.  A time of day is a pair <<hour, minute>>; a timestamp is a
\* day counted from the day of the call, and a time of day.  daily_times = None
\* is the empty sequence.
TimeChoices == {<<6, 30>>, <<9, 0>>, <<18, 0>>}
NowChoices == {<<0, 0>>, <<9, 0>>, <<23, 59>>}

TimeBefore(a, b) == a[1] < b[1] \/ (a[1] = b[1] /\ a[2] < b[2])

\* The daily_times arguments: None, or times of day in ascending order.
DailyTimes ==
    {<<>>} \cup
    UNION {{q \in [1..n -> TimeChoices] :
               \A i \in 1..(n - 1) : TimeBefore(q[i], q[i + 1])} : n \in 1..MaxTimes}

Stamp(day, t) == [day |-> day, hour |-> t[1], minute |-> t[2]]

\* t1 is not later than t2
NotAfter(t1, t2) ==
    \/ t1.day < t2.day
    \/ t1.day = t2.day /\ ~TimeBefore(<<t2.hour, t2.minute>>, <<t1.hour, t1.minute>>)

\* The default daytime window and the even spacing of a day's items in it.
WindowStart == 8
WindowHours == 12
DefaultTime(slot, per_day) == <<WindowStart + (slot * WindowHours) \div per_day, 0>>

\* The time of day of the slot-th item of a day: the given times in order,
\* starting over when the day has more items than times.
TimeAt(slot, per_day, times) ==
    IF times = <<>> THEN DefaultTime(slot, per_day)
    ELSE times[(slot % Len(times)) + 1]

\* The loop over the items: the next item goes to the current day's next slot,
\* and a new day is started once the day's quota is reached.
RECURSIVE Place(_, _, _, _, _, _)
Place(n, day, slot, per_day, times, acc) ==
    IF n = 0 THEN acc
    ELSE LET acc2 == Append(acc, Stamp(day, TimeAt(slot, per_day, times))) IN
         IF slot + 1 = per_day
           THEN Place(n - 1, day + 1, 0, per_day, times, acc2)
           ELSE Place(n - 1, day, slot + 1, per_day, times, acc2)

generate_schedule_time_next_day(total_videos, videos_per_day, daily_times, start_days) ==
    Place(total_videos, start_days, 0, videos_per_day, daily_times, <<>>)

\* Mutant of ScheduleCall: videos_per_day and start_days change places.
ScheduleCall_ArgsSwapped(file_num, videos_per_day, daily_times, start_days) ==
    generate_schedule_time_next_day(file_num, start_days + 1, daily_times,
                                    videos_per_day - 1)

\* The call made by post_video_*:
\* generate_schedule_time_next_day(len(files), videos_per_day, daily_times, start_days)
ScheduleCall(file_num, videos_per_day, daily_times, start_days) ==
    generate_schedule_time_next_day(file_num, videos_per_day, daily_times, start_days)

InitSchedule ==
    /\ svcOpen = {}
    /\ current_browser_id = NoneId
    /\ session = NoSession
    /\ cm = CmIdle
    /\ last = NoCall
    /\ ctx = NoCtxCall
    /\ cfg = NoCfg
    /\ api = NoApiCall
    /\ batch = NoBatch
    /\ attached = NoAttach
    /\ default_api = NoDefaultApi
    /\ db = NoDb
    /\ DEFAULT_BROWSER_TYPE = "playwright"
    /\ browser_type = "playwright"
    /\ \E n \in 0..MaxVideos, per \in 1..MaxPerDay, times \in DailyTimes,
          start \in 0..MaxStartDays, now \in NowChoices :
           sched = [NoSched EXCEPT !.phase = "input", !.total_videos = n,
                                   !.videos_per_day = per, !.daily_times = times,
                                   !.start_days = start, !.now = now]

\* publish_datetimes = generate_schedule_time_next_day(...)
RunSchedule ==
    /\ sched.phase = "input"
    /\ sched' = [sched EXCEPT !.phase = "done",
                              !.result = ScheduleCall(sched.total_videos,
                                                      sched.videos_per_day,
                                                      sched.daily_times,
                                                      sched.start_days)]
    /\ UNCHANGED <<DEFAULT_BROWSER_TYPE, svcOpen, current_browser_id, browser_type,
                   session, cm, last, ctx, db, cfg, api, batch, attached, default_api>>

NextSchedule == RunSchedule

SpecSchedule == InitSchedule /\ [][NextSchedule]_vars

\* =========================================================== batch workflow
\* post_video_tencent / post_video_DouYin / post_video_ks / post_video_xhs.
\* files and accounts are the lengths of the two lists; batch.index and
\* batch.cookie are the positions of the two loops; batch.log holds one entry
\* per upload task that was run, batch.sessions the tasks started.
BatchFns == {"post_video_tencent", "post_video_DouYin", "post_video_ks", "post_video_xhs"}

\* A publish time handed to an upload task: a timestamp of the schedule, the
\* integer 0, or the whole schedule.
ZeroStamp == Stamp(0, <<0, 0>>)
ItemArg(t) == [kind |-> "item", stamp |-> t]
ZeroArg == [kind |-> "zero", stamp |-> ZeroStamp]
WholeArg == [kind |-> "whole", stamp |-> ZeroStamp]

\* `if enableTimer: publish_datetimes = generate_schedule_time_next_day(...)`,
\* else a list of zeros (post_video_xhs: the integer 0)
PublishDatetimes(b) ==
    IF b.enableTimer
      THEN LET r == ScheduleCall(b.files, b.videos_per_day, b.daily_times, b.start_days)
           IN [kind |-> "list", items |-> [i \in 1..Len(r) |-> ItemArg(r[i])]]
    ELSE IF b.fn = "post_video_xhs"
      THEN [kind |-> "int", items |-> <<>>]
      ELSE [kind |-> "list", items |-> [i \in 1..b.files |-> ZeroArg]]

\* The publish time in the constructor call of the upload task:
\* publish_datetimes[index], and in post_video_xhs publish_datetimes itself.
TaskArg(b) ==
    IF b.fn = "post_video_xhs"
      THEN IF b.publish_datetimes.kind = "int" THEN ZeroArg ELSE WholeArg
      ELSE b.publish_datetimes.items[b.index + 1]

\* The position after the task at (index, cookie) returned.
AfterItem(b) ==
    IF b.cookie < b.accounts THEN [b EXCEPT !.cookie = b.cookie + 1]
    ELSE IF b.index + 1 < b.files THEN [b EXCEPT !.index = b.index + 1, !.cookie = 1]
    ELSE [b EXCEPT !.pc = "done"]

\* post_video_*(title, files, tags, account_file, enableTimer, ...) is called
BatchStart ==
    \E fn \in BatchFns, files \in 0..MaxFiles, accounts \in 0..NumAccounts,
       timer \in BOOLEAN, per \in 1..MaxPerDay, times \in DailyTimes,
       start \in 0..MaxStartDays :
        /\ batch.pc = "idle"
        /\ ~timer => per = 1 /\ times = <<>> /\ start = 0
        /\ batch' = [NoBatch EXCEPT !.pc = "schedule", !.fn = fn, !.files = files,
                                    !.accounts = accounts, !.enableTimer = timer,
                                    !.videos_per_day = per, !.daily_times = times,
                                    !.start_days = start]
        /\ UNCHANGED <<DEFAULT_BROWSER_TYPE, svcOpen, current_browser_id, browser_type,
                       session, cm, last, ctx, db, cfg, api, sched, attached,
                       default_api>>

\* The schedule is computed, before the loops
BatchSchedule ==
    /\ batch.pc = "schedule"
    /\ batch' = [batch EXCEPT !.publish_datetimes = PublishDatetimes(batch),
                              !.scheduled = IF batch.enableTimer THEN @ + 1 ELSE @,
                              !.pc = IF batch.files = 0 \/ batch.accounts = 0
                                       THEN "done" ELSE "loop"]
    /\ UNCHANGED <<DEFAULT_BROWSER_TYPE, svcOpen, current_browser_id, browser_type,
                   session, cm, last, ctx, db, cfg, api, sched, attached, default_api>>

\* One pass of the inner loop starts: the resolver, the task's constructor
\* with the resolved configuration, and asyncio.run(app.main()) is entered.
BatchTaskStart ==
    LET r == get_account_browser_config_by_filepath(db, batch.cookie)
        entry == [file |-> batch.index, cookie |-> batch.cookie,
                  publish |-> TaskArg(batch), browser_type |-> r.browser_type,
                  bitbrowser_id |-> r.bitbrowser_id, res |-> "running"]
    IN
    /\ batch.pc = "loop"
    /\ cfg' = CfgRecord("get_account_browser_config_by_filepath", batch.cookie, r)
    /\ batch' = [batch EXCEPT !.pc = "task", !.log = Append(@, entry),
                              !.sessions = @ + 1, !.active = @ + 1]
    /\ UNCHANGED <<DEFAULT_BROWSER_TYPE, svcOpen, current_browser_id, browser_type,
                   session, cm, last, ctx, db, api, sched, attached, default_api>>

\* asyncio.run(app.main()) returns or raises; nothing catches a raise, so it
\* leaves the function.
BatchTaskEnd ==
    \E res \in {"ok", "raise"} :
        LET b1 == [batch EXCEPT !.log[Len(batch.log)].res = res, !.active = @ - 1,
                                !.pc = "loop"]
        IN
        /\ batch.pc = "task"
        /\ batch' = IF res = "raise" THEN [b1 EXCEPT !.pc = "aborted", !.exc = "task"]
                                     ELSE AfterItem(b1)
        /\ UNCHANGED <<DEFAULT_BROWSER_TYPE, svcOpen, current_browser_id, browser_type,
                       session, cm, last, ctx, db, cfg, api, sched, attached,
                       default_api>>

InitBatch ==
    /\ InitCommon
    /\ DEFAULT_BROWSER_TYPE = "playwright"
    /\ browser_type = "playwright"
    /\ db \in {d \in Dbs : d.state # "ok" \/ \A a \in Accounts : ~d.rows[a].present}
              \cup {[state |-> "ok",
                     rows |-> [a \in Accounts |->
                                  [present |-> TRUE, browser_type |-> "bitbrowser",
                                   bitbrowser_id |-> a]]]}

NextBatch == BatchStart \/ BatchSchedule \/ BatchTaskStart \/ BatchTaskEnd

SpecBatch == InitBatch /\ [][NextBatch]_vars

\* ========================================================= client singleton
\* Base addresses: a host and the number of '/' characters that end the string.
Addresses == [host : 1..NumHosts, slashes : 0..MaxSlashes]

\* BitBrowserAPI.__init__(base_url) keeps base_url.rstrip('/')
rstrip(a) == [a EXCEPT !.slashes = 0]

\* Mutant of get_bitbrowser_api: every call builds a new client.
get_bitbrowser_api_LastWins(d, base_url) ==
    [d EXCEPT !.instances = @ + 1,
              !.first = IF d.instances = 0 THEN base_url ELSE @,
              !.base_url = rstrip(base_url)]

\* get_bitbrowser_api(base_url): the module state after the call. The client
\* it returns is client number instances, with address base_url.
get_bitbrowser_api(d, base_url) ==
    IF d.instances = 0
      THEN [d EXCEPT !.instances = 1, !.first = base_url,
                     !.base_url = rstrip(base_url)]
      ELSE d

\* BitBrowserConnector.__init__(bit_browser_url): the new connector
BitBrowserConnector_init(d, bit_browser_url) ==
    [bit_browser_url |-> bit_browser_url,
     api |-> get_bitbrowser_api(d, bit_browser_url).instances,
     api_base_url |-> get_bitbrowser_api(d, bit_browser_url).base_url]

\* client = get_bitbrowser_api(a)
GetApi ==
    \E a \in Addresses :
        LET d == get_bitbrowser_api(default_api, a) IN
        /\ default_api' = [d EXCEPT !.ret = d.instances]
        /\ UNCHANGED <<DEFAULT_BROWSER_TYPE, svcOpen, current_browser_id, browser_type,
                       session, cm, last, ctx, db, cfg, api, sched, batch, attached>>

\* connector = BitBrowserConnector(a)
NewConnector ==
    \E a \in Addresses :
        LET d == get_bitbrowser_api(default_api, a) IN
        /\ Len(default_api.connectors) < MaxConnectors
        /\ default_api' =
               [d EXCEPT !.connectors = Append(@, BitBrowserConnector_init(default_api, a))]
        /\ UNCHANGED <<DEFAULT_BROWSER_TYPE, svcOpen, current_browser_id, browser_type,
                       session, cm, last, ctx, db, cfg, api, sched, batch, attached>>

\* A connector sends a request: url = urljoin(self.base_url, endpoint) of its api.
ConnectorRequest ==
    \E i \in DOMAIN default_api.connectors :
        /\ default_api' = [default_api EXCEPT
                               !.sent = default_api.connectors[i].api_base_url,
                               !.by = i]
        /\ UNCHANGED <<DEFAULT_BROWSER_TYPE, svcOpen, current_browser_id, browser_type,
                       session, cm, last, ctx, db, cfg, api, sched, batch, attached>>

InitSingleton ==
    /\ InitCommon
    /\ DEFAULT_BROWSER_TYPE = "playwright"
    /\ browser_type = "bitbrowser"
    /\ db = NoDb

NextSingleton == GetApi \/ NewConnector \/ ConnectorRequest

SpecSingleton == InitSingleton /\ [][NextSingleton]_vars

\* =================================================================== claims
\* How many times the request (ep, id) occurs in a request log.
CountReq(reqs, ep, id) == Cardinality({i \in DOMAIN reqs : reqs[i] = Req(ep, id)})
CountEp(reqs, ep) == Cardinality({i \in DOMAIN reqs : reqs[i].ep = ep})

C2_ExactlyOneCloseCall ==
    /\ (cm.pc \in {"sleep1", "sleep2", "done"} /\ cm.browser) =>
           cm.calls = <<[type |-> cm.type, id |-> cm.id]>>
    /\ (cm.pc \in {"body", "exit"}) => cm.calls = <<>>

\* C2 witness: the body was cancelled and the release call ran to its end.
C2_Witness ==
    /\ cm.pc = "done"
    /\ cm.browser
    /\ cm.body = "cancelled"
    /\ cm.id \in WindowIds
    /\ cm.calls = <<[type |-> cm.type, id |-> cm.id]>>
    /\ \E i \in DOMAIN cm.events : cm.events[i] = Event("close", cm.id, "release")

\* The release of the scope reached the backend: a close request for the window
\* (RemoteService) or browser.close() (LocalEngine).
Released ==
    \E i \in DOMAIN cm.events :
        /\ cm.events[i].by = "release"
        /\ \/ cm.events[i].ep = "engine_close"
           \/ cm.events[i].ep = "close" /\ cm.events[i].id = cm.id

\* C3: no run ends with a session opened and never closed: once the scope of
\* an opened session is left, the close request or the engine close was issued,
\* also when the task was cancelled in the body or in a pre-close sleep.
C3_CloseAlwaysIssued ==
    (cm.pc = "done" /\ cm.browser) => Released

\* C8: within one scope every close request follows a successful open request
\* for the same window, every engine close follows the launch, and the release
\* acts only after __aenter__ returned a browser.
C8_NoCloseBeforeOpen ==
    \A i \in DOMAIN cm.events :
        LET ev == cm.events[i] IN
        /\ ev.ep = "close" =>
              /\ last.out.opened
              /\ \E j \in 1..(i - 1) : cm.events[j].ep = "open" /\ cm.events[j].id = ev.id
        /\ ev.ep = "engine_close" =>
              \E j \in 1..(i - 1) : cm.events[j].ep = "launch"
        /\ ev.by = "release" =>
              /\ cm.browser
              /\ \E j \in 1..(i - 1) : cm.events[j].ep = "entered"

\* C8 witness: a scope that opened a window and whose release closed it.
C8_Witness ==
    /\ cm.pc = "done"
    /\ cm.browser
    /\ \E i \in DOMAIN cm.events : cm.events[i] = Event("close", cm.id, "release")
    /\ \E i \in DOMAIN cm.events : cm.events[i] = Event("open", cm.id, "create")


CreateOps == {"create_browser_and_context", "BrowserManager.create_browser"}
CloseOps == {"close_browser(helper)", "BrowserManager.close_browser"}

\* The close request for window id follows the open request in the log.
ClosedAfterOpen(reqs, id) ==
    \E i, j \in DOMAIN reqs :
        i < j /\ reqs[i] = Req("open", id) /\ reqs[j] = Req("close", id)

\* C4: a create call that fails (raises, or returns (None, None)) after the
\* service opened the window or the local engine was launched has released it:
\* the window's close request was sent, the engine was closed.
C4_FailedCreateReleases ==
    (last.op \in CreateOps /\ last.out.ret \in {"raise", "nonepair"}) =>
        /\ last.out.opened => ClosedAfterOpen(last.out.reqs, last.id)
        /\ last.out.launched => last.out.engineClosed

\* C5: a second close call on a session that is already torn down completes
\* without raising, for both backends, both implementations, with or without a
\* window id (stated for calls given the session's backend and for service
\* answers that are JSON objects).
C5_SecondCloseNeverRaises ==
    (/\ last.op \in CloseOps
     /\ last.torn0
     /\ EffType(last.type, DEFAULT_BROWSER_TYPE) = session.backend
     /\ last.out.path # "close_raised") =>
        last.out.ret # "raise"

\* No request, no engine start, launch or attach was made by the last call.
NothingStarted ==
    /\ last.out.reqs = <<>>
    /\ last.out.drivers = 0
    /\ ~last.out.launched
    /\ ~last.out.attached
    /\ ~last.out.opened
    /\ last.out.svc = svcOpen

\* C6: creating a bitbrowser session with a None or empty window id is a
\* configuration failure, ValueError in create_browser_and_context and
\* (None, None) in BrowserManager.create_browser, reported before any health
\* check, window-open request, engine start, launch or attach.
C6_MissingIdIsConfigError ==
    /\ (/\ last.op = "create_browser_and_context"
        /\ EffType(last.type, DEFAULT_BROWSER_TYPE) = "bitbrowser"
        /\ Falsy(last.id)) =>
           (last.out.ret = "raise" /\ last.out.exc = "ValueError" /\ NothingStarted)
    /\ (/\ last.op = "BrowserManager.create_browser"
        /\ last.type = "bitbrowser"
        /\ Falsy(last.id)) =>
           (last.out.ret = "nonepair" /\ last.out.exc = "none" /\ NothingStarted)

\* C6 witness: the default backend is bitbrowser and the id is the empty string.
C6_Witness ==
    /\ last.op = "create_browser_and_context"
    /\ last.type = "None"
    /\ DEFAULT_BROWSER_TYPE = "bitbrowser"
    /\ last.id = EmptyId
    /\ last.out.exc = "ValueError"
    /\ svcOpen # {}

NoConfigFound == Lookup(db, cfg.key) \in {"raise", "norow"}

MergeCase ==
    /\ ctx.phase = "done"
    /\ last.out.attached
    /\ ctx.env.existing
    /\ ctx.env.file = "valid"
    /\ ctx.env.add = "ok"

\* C10: with an existing context and a valid authentication-state file,
\* get_or_create_browser returns the existing context, not a new one; every
\* cookie it had is still there, every cookie of the file is there with the
\* file's value, and cookies the file does not name keep their value.
C10_CookiesMerged ==
    MergeCase =>
        /\ ctx.ret = "pair"
        /\ ctx.res.kind = "existing"
        /\ \A n \in CookieNames :
              /\ ctx.env.jar0[n] # 0 => ctx.res.jar[n] # 0
              /\ ctx.env.fjar[n] # 0 => ctx.res.jar[n] = ctx.env.fjar[n]
              /\ ctx.env.fjar[n] = 0 => ctx.res.jar[n] = ctx.env.jar0[n]

\* C10 witness: the context holds a cookie the file lacks, the file one the
\* context lacks, and both are in the result.
C10_Witness ==
    /\ MergeCase
    /\ \E a, b \in CookieNames :
          /\ a # b
          /\ ctx.env.jar0[a] # 0 /\ ctx.env.fjar[a] = 0
          /\ ctx.env.fjar[b] # 0 /\ ctx.env.jar0[b] = 0
          /\ ctx.res.jar[a] = ctx.env.jar0[a]
          /\ ctx.res.jar[b] = ctx.env.fjar[b]

\* The call attached, found an existing context, and reading the file or
\* adding its cookies raised; the engine accepts a new_context call.
MergeErrorCase ==
    /\ ctx.phase = "done"
    /\ last.out.attached
    /\ ctx.env.existing
    /\ ctx.env.file = "corrupt" \/ (ctx.env.file = "valid" /\ ctx.env.add = "raise")
    /\ ctx.env.new2 = "ok"

\* C11: when reading or parsing the authentication-state file, or adding its
\* cookies, raises during context reconciliation, get_or_create_browser still
\* returns a pair whose context is brand new; it neither raises nor returns a
\* null context.
C11_ErrorFallsBackToNewContext ==
    MergeErrorCase =>
        /\ ctx.ret = "pair"
        /\ ctx.res.kind = "fallback"

\* C12: the context returned by every successful create call, on both backends
\* and every context path, has had set_init_script applied exactly once.
C12_InitScriptExactlyOnce ==
    (last.op \in CreateOps /\ last.out.ret = "pair") => ctx.res.inits = 1

\* The answer is a network-level failure, or a payload of unexpected shape for
\* the operation: JSON that is not an object, or a null 'data' where the
\* operation reads into 'data'.
IntoData == {"list_browsers", "get_browser_pids", "is_browser_opened",
             "create_browser_for_platform"}
FailureAnswer ==
    \/ api.wire.kind \in RequestExceptions \cup {"nonobject"}
    \/ api.op \in IntoData /\ api.wire.success = "true" /\ api.wire.data = "null"

\* The failure value of each operation.
FailureValue(op) ==
    CASE op \in BoolOps \cup {"is_browser_opened"} -> "False"
      [] op = "get_browser_pids" -> "{}"
      [] op = "create_browser" -> "result_fail"
      [] OTHER -> "None"

\* C13: every operation of the service client turns every network-level
\* failure and every malformed or unexpectedly shaped payload into its failure
\* value and never raises.
C13_FailuresNeverRaise ==
    (api.op \in ApiOps /\ FailureAnswer) =>
        /\ api.exc = "none"
        /\ api.ret = FailureValue(api.op)

\* C14: open_browser sends the health check before anything else; when the
\* health check fails it returns None, sends no open request, starts no engine
\* client, and leaves current_browser_id and the service's windows as they were.
C14_ProbeFirstAndFailureStops ==
    last.op = "open_browser" =>
        /\ last.out.reqs # <<>> /\ last.out.reqs[1] = Req("health", NoneId)
        /\ last.out.path = "probe_failed" =>
              /\ last.out.ret = "None"
              /\ last.out.reqs = <<Req("health", NoneId)>>
              /\ last.out.drivers = 0
              /\ ~last.out.opened
              /\ current_browser_id = last.cid0

\* C14 witness: the probe fails while the connector tracks a window opened
\* earlier; the tracked id is still that window.
C14_Witness ==
    /\ last.op = "open_browser"
    /\ last.out.path = "probe_failed"
    /\ last.out.ret = "None"
    /\ last.cid0 \in WindowIds
    /\ current_browser_id = last.cid0

\* The connector's close_browser was called for a window the service does not
\* have open, and the service answered with a JSON object or not at all.
CloseOfUnknown ==
    /\ last.op = "close_browser"
    /\ ~Falsy(CloseTarget(last.cid0, last.id))
    /\ ~last.known0
    /\ last.resp # "bad"

OpenedQuery ==
    /\ last.op = "is_browser_opened"
    /\ api.wire.kind # "nonobject"
    /\ api.wire.data # "null"

\* The lookup reported a positive process id for the id asked about.
ReportsLivePid ==
    /\ api.wire.kind = "object"
    /\ api.wire.success = "true"
    /\ api.wire.data = "object"
    /\ api.wire.pid = "positive"

AfterNow(t) == t.day > 0 \/ (t.day = 0 /\ TimeBefore(sched.now, <<t.hour, t.minute>>))

\* C18: for every item count, items per day, optional times of day and start
\* day offset, the scheduler returns exactly as many timestamps as items, in
\* non-decreasing order, each strictly later than the time of the call; none
\* for no items.
C18_ScheduleOrderedAndFuture ==
    sched.phase = "done" =>
        /\ Len(sched.result) = sched.total_videos
        /\ \A i \in 1..(Len(sched.result) - 1) :
               NotAfter(sched.result[i], sched.result[i + 1])
        /\ \A i \in 1..Len(sched.result) : AfterNow(sched.result[i])

\* The inputs of the example: 5 items, 2 per day, 09:00 and 18:00, offset 0.
ExampleCase ==
    /\ sched.phase = "done"
    /\ sched.total_videos = 5
    /\ sched.videos_per_day = 2
    /\ sched.daily_times = <<(<<9, 0>>), (<<18, 0>>)>>
    /\ sched.start_days = 0

ExampleResult ==
    <<Stamp(0, <<9, 0>>), Stamp(0, <<18, 0>>), Stamp(1, <<9, 0>>), Stamp(1, <<18, 0>>),
      Stamp(2, <<9, 0>>)>>

\* C19: item k (from 0) is placed on day start_days + k \div videos_per_day
\* and, when times of day are given, at time
\* daily_times[(k mod videos_per_day) mod |daily_times|]; the example of 5
\* items, 2 per day, 09:00 and 18:00, offset 0 gives day 0 09:00, day 0 18:00,
\* day 1 09:00, day 1 18:00, day 2 09:00.
C19_PlacementByDayAndSlot ==
    sched.phase = "done" =>
        /\ Len(sched.result) = sched.total_videos
        /\ \A k \in 0..(Len(sched.result) - 1) :
              /\ sched.result[k + 1].day = sched.start_days + k \div sched.videos_per_day
              /\ sched.daily_times # <<>> =>
                    <<sched.result[k + 1].hour, sched.result[k + 1].minute>> =
                        sched.daily_times[((k % sched.videos_per_day)
                                              % Len(sched.daily_times)) + 1]
        /\ ExampleCase => sched.result = ExampleResult

\* C19 witness: the example has been scheduled, with its expected result.
C19_Witness ==
    /\ ExampleCase
    /\ sched.result = ExampleResult

\* The run has ended: the function returned, or an exception left it.
BatchEnded == batch.pc \in {"done", "aborted"}

\* The (file, account) pair has been attempted.
Attempted(i, a) ==
    \E n \in DOMAIN batch.log : batch.log[n].file = i /\ batch.log[n].cookie = a

\* C17: when a post_video_* run has ended, every (file, account) pair of the
\* batch has been attempted, whatever the earlier uploads did: a failed task
\* does not end the run.
C17_EveryPairAttempted ==
    BatchEnded =>
        \A i \in 0..(batch.files - 1), a \in 1..batch.accounts : Attempted(i, a)

\* C20: the schedule is computed once and before any session is opened, and
\* the task for the file at index i is given the i-th timestamp of the
\* schedule when the timer is enabled and 0 when it is not.
C20_TaskGetsItsOwnTimestamp ==
    /\ batch.pc = "schedule" => batch.sessions = 0 /\ batch.scheduled = 0
    /\ batch.pc \in {"loop", "task", "done", "aborted"} =>
           batch.scheduled = (IF batch.enableTimer THEN 1 ELSE 0)
    /\ \A n \in DOMAIN batch.log :
           batch.log[n].publish =
               IF batch.enableTimer
                 THEN ItemArg(ScheduleCall(batch.files, batch.videos_per_day,
                                           batch.daily_times,
                                           batch.start_days)[batch.log[n].file + 1])
                 ELSE ZeroArg

\* __aexit__ has returned on a manager whose __aenter__ produced no browser.
ReleasedNullSession == cm.pc = "done" /\ ~cm.browser

\* C21: when acquire produced no browser, __aexit__ calls no close_browser,
\* sends no close request, closes no engine, waits for nothing, and does not
\* raise.
C21_NullSessionReleaseIsNoop ==
    ReleasedNullSession =>
        /\ cm.calls = <<>>
        /\ \A i \in DOMAIN cm.events : cm.events[i].by # "release"
        /\ cm.waited = 0
        /\ cm.exc = "none"

\* C21 witness: acquire failed after the service had opened the window, and
\* __aexit__ has returned.
C21_Witness ==
    /\ ReleasedNullSession
    /\ \E i \in DOMAIN cm.events : cm.events[i].ep = "open"
    /\ cm.calls = <<>>
    /\ cm.waited = 0

\* A close call that sent the close request for a remote window.
RemoteCloseSent == last.op \in CloseOps /\ CountEp(last.out.reqs, "close") >= 1

\* The delay argument of the call: the default of the function called.
DelayArgument == IF last.op = "close_browser(helper)" THEN HelperDelay ELSE ConnectorDelay

\* C22: when a close call for a remote window sends its close request, the
\* time waited between the call and the request equals the call's delay
\* argument; no second, fixed delay is added to it.
C22_WaitEqualsDelayArgument ==
    RemoteCloseSent => last.out.waited = DelayArgument

\* A close call given the session's backend and window id has returned.
SessionClosed == last.op \in CloseOps /\ last.match /\ last.out.ret = "None"

\* C23: after a create call and a close call for its session nothing the
\* create started is live: the engine driver is stopped, the engine or CDP
\* connection is closed, and a remote window got its close request.
C23_TeardownReleasesEverything ==
    SessionClosed =>
        /\ session.driver # "running"
        /\ session.handle = "closed"
        /\ session.backend = "bitbrowser" =>
               CountReq(last.out.reqs, "close", session.id) >= 1

\* The n-th pair of the batch in file-major order (n from 1): its file index
\* and its account.
PairFile(n) == (n - 1) \div batch.accounts
PairAccount(n) == ((n - 1) % batch.accounts) + 1

\* C24: a post_video_* run never has two upload tasks active together; its
\* tasks are started in file-major order, each with the configuration the
\* resolver gives for its own account; and when the run has ended exactly
\* len(files) x len(accounts) tasks were run.
C24_SequentialFileMajor ==
    /\ batch.active <= 1
    /\ \A n \in DOMAIN batch.log :
          /\ batch.log[n].file = PairFile(n)
          /\ batch.log[n].cookie = PairAccount(n)
          /\ batch.log[n].browser_type =
                 get_account_browser_config_by_filepath(db, PairAccount(n)).browser_type
          /\ batch.log[n].bitbrowser_id =
                 get_account_browser_config_by_filepath(db, PairAccount(n)).bitbrowser_id
    /\ BatchEnded => Len(batch.log) = batch.files * batch.accounts

\* A call of the long-lived connector that attached to the window it was given.
OpenAttached == last'.op = "open_browser" /\ last'.out.path = "attached"
\* A call of close_browser that succeeded for the window tracked before it.
CloseOfTracked ==
    /\ last'.op = "close_browser"
    /\ last'.out.ret = "True"
    /\ CloseTarget(current_browser_id, last'.id) = current_browser_id

\* C25: every step of the connector either is an open_browser(id) that
\* attached, and then current_browser_id is id afterwards; or is a
\* close_browser that succeeded for the tracked window, and then
\* current_browser_id is None afterwards; or leaves current_browser_id as it
\* was (failed opens, failed closes, successful closes of another window, and
\* every other operation).
C25_TrackedIdFrame ==
    [][ IF last'.op # "none" /\ last.op = "none" /\ OpenAttached
          THEN current_browser_id' = last'.id
        ELSE IF last'.op # "none" /\ last.op = "none" /\ CloseOfTracked
          THEN current_browser_id' = NoneId
        ELSE current_browser_id' = current_browser_id ]_vars

\* A failed attach on a connector that tracks another window left the tracked
\* id alone.
C25_Witness ==
    /\ last.op = "open_browser"
    /\ last.out.path = "attach_failed"
    /\ last.cid0 # NoneId
    /\ last.cid0 # last.id
    /\ current_browser_id = last.cid0

\* A step that is a close_browser() call without an id on the long-lived
\* connector.
IdlessClose == last.op = "none" /\ last'.op = "close_browser" /\ Falsy(last'.id)

\* C26: a close_browser() without an id, when no window is tracked, returns
\* False without waiting and without a request; otherwise the tracked window is
\* the one of the connector's most recent successful attach, the call sends one
\* close request, for that window, that window is closed when the service
\* accepts, and every other window (one attached earlier included) stays as it
\* was.
C26_IdlessCloseTargetsLatest ==
    [][ IdlessClose =>
          IF current_browser_id = NoneId
            THEN /\ last'.out.ret = "False"
                 /\ last'.out.waited = 0
                 /\ last'.out.reqs = <<>>
                 /\ svcOpen' = svcOpen
            ELSE /\ current_browser_id = attached.recent
                 /\ last'.out.reqs = <<Req("close", attached.recent)>>
                 /\ last'.out.ret = "True" => attached.recent \notin svcOpen'
                 /\ svcOpen \ {attached.recent} \subseteq svcOpen'
                 /\ svcOpen' \subseteq svcOpen ]_vars

\* Two windows were attached through the connector, an id-less close has
\* closed the later one and the earlier one is still open.
C26_Witness ==
    /\ last.op = "close_browser"
    /\ Falsy(last.id)
    /\ last.out.ret = "True"
    /\ last.cid0 = attached.recent
    /\ attached.recent \notin svcOpen
    /\ \E a \in attached.ever : a # attached.recent /\ a \in svcOpen

\* C27: get_bitbrowser_api builds one client at most; every call returns that
\* client, whose base address is the one given to the first call (as
\* BitBrowserAPI keeps it, without the '/' characters at its end); every
\* connector holds that client, and every request of every connector goes to
\* that address, whatever bit_browser_url the connector was built with.
C27_FirstCallWinsSingleton ==
    /\ default_api.instances <= 1
    /\ default_api.ret \in {0, 1}
    /\ default_api.instances = 1 => default_api.base_url = rstrip(default_api.first)
    /\ \A i \in DOMAIN default_api.connectors :
          /\ default_api.connectors[i].api = 1
          /\ default_api.connectors[i].api_base_url = rstrip(default_api.first)
    /\ default_api.by # 0 => default_api.sent = rstrip(default_api.first)

\* A connector built with another host than the first call's has sent a
\* request, and the request went to the first call's host.
C27_Witness ==
    /\ default_api.by # 0
    /\ default_api.connectors[default_api.by].bit_browser_url.host
           # default_api.first.host
    /\ default_api.sent.host = default_api.first.host
    /\ default_api.ret = 1

\* The creating call handed back a browser / a context.
BrowserHanded == last.out.ret = "pair" /\ (last.out.attached \/ last.out.launched)
ContextHanded == last.out.ret = "pair" /\ ctx.res # NoContext

\* C28: a call that creates a session hands back a browser exactly when it
\* hands back a context; create_browser_and_context returns such a pair or
\* raises, and get_or_create_browser (reached through
\* BrowserManager.create_browser) returns such a pair, (None, None), or raises.
C28_NoHalfBuiltSession ==
    last.op \in CreateOps =>
        /\ BrowserHanded <=> ContextHanded
        /\ last.out.ret = "pair" => BrowserHanded
        /\ last.out.ret \in {"nonepair", "raise"} => ctx.res = NoContext
        /\ last.op = "create_browser_and_context" => last.out.ret \in {"pair", "raise"}

\* get_or_create_browser lost its first context attempt, made the context in
\* its except-branch and handed back a full pair.
C28_Witness ==
    /\ last.op = "BrowserManager.create_browser"
    /\ last.out.ret = "pair"
    /\ last.out.attached
    /\ ctx.res.kind = "fallback"

====
